---- MODULE Spec2Model ----
(***************************************************************************)
(* A model of aeris.maps.animations.TileAnimation                          *)
(* (src/src/maps/animations/tileanimation.js): the timeline of frame       *)
(* layers, the nearest-timestamp lookup, the transition between frames,    *)
(* and the listeners the animation registers.                              *)
(*                                                                         *)
(* Timestamps are small naturals (0..MaxTime); the clock `now` is the      *)
(* value Date.now() returns.  A frame layer is identified by the time it   *)
(* was created for.                                                        *)
(*                                                                         *)
(* The module also holds the loader's load events as the animation proxies *)
(* them (LoadSpec), an AnimationSync over two tile animations (SyncSpec),  *)
(* and AerisAPI.serializeToURI as its unit tests describe it               *)
(* (SerializeSpec).                                                        *)
(***************************************************************************)
EXTENDS Integers, Sequences, FiniteSets, TLC

\* ---------------------------------------------------------------- bounds
MaxTime == 3        \* timestamps and clock values range over 0..MaxTime
MaxFrames == 2      \* most frames the loader hands over
MaxPending == 2     \* most queued 'load:times' retries (goToTime before load)
MaxEmits == 2       \* most load events of the loader that are followed
MaxMemberFrames == 1  \* most frames the loader of an AnimationSync member hands over
MaxElems == 2       \* most elements of an array or properties of an object serialized

Times == 0..MaxTime

\* The clock runs from 1 to MaxTime - 1, so that there are timestamps both in
\* the past and in the future.
Clock == 1..(MaxTime - 1)

\* JavaScript's `undefined` (no time / no layer).
Undefined == -1

\* options.timeTolerance (2 hours by default): one unit of the model's time.
TimeTolerance == 1

\* ------------------------------------------------------------- JS values
\* Arguments handed to goToTime: numbers, Dates, and values that are neither.
NumberInputs == [type : {"number"}, v : Times]
DateInputs == [type : {"date"}, v : {MaxTime}]
InvalidInputs == [type : {"undefined", "string"}, v : {Undefined}]
Inputs == NumberInputs \cup DateInputs \cup InvalidInputs

isDate(x) == x.type = "date"
getTime(x) == [type |-> "number", v |-> x.v]
isNumeric(x) == x.type = "number"
Num(n) == [type |-> "number", v |-> n]

Abs(x) == IF x < 0 THEN 0 - x ELSE x

\* Object keys are strings: the decimal digits of the timestamp.
RECURSIVE ToKey(_)
ToKey(n) == IF n < 10 THEN <<n>> ELSE Append(ToKey(n \div 10), n % 10)

RECURSIVE parseInt(_)
parseInt(k) ==
  IF Len(k) = 1 THEN k[1]
  ELSE parseInt(SubSeq(k, 1, Len(k) - 1)) * 10 + k[Len(k)]

\* _.sortBy(list, _.identity): ascending numeric order (insertion sort).
RECURSIVE InsertSorted(_, _)
InsertSorted(x, sorted) ==
  IF Len(sorted) = 0 THEN <<x>>
  ELSE IF x < Head(sorted) THEN <<x>> \o sorted
  ELSE <<Head(sorted)>> \o InsertSorted(x, Tail(sorted))

RECURSIVE sortBy(_)
sortBy(list) ==
  IF Len(list) = 0 THEN <<>> ELSE InsertSorted(Head(list), sortBy(Tail(list)))

Range(f) == {f[i] : i \in DOMAIN f}
last(list) == IF Len(list) = 0 THEN Undefined ELSE list[Len(list)]
indexOf(list, x) ==
  IF \E i \in 1..Len(list) : list[i] = x
  THEN (CHOOSE i \in 1..Len(list) :
          list[i] = x /\ \A j \in 1..(i - 1) : list[j] # x) - 1
  ELSE 0 - 1
\* list[i] for a zero-based index; out of range gives undefined.
At(list, i) == IF i >= 0 /\ i < Len(list) THEN list[i + 1] ELSE Undefined

\* aeris/util/findclosest: the member of `numbers` nearest to `target`
\* (the first one on a tie), undefined for an empty list.
RECURSIVE closerOf(_, _, _)
closerOf(target, numbers, closest) ==
  IF Len(numbers) = 0 THEN closest
  ELSE closerOf(target, Tail(numbers),
                IF Abs(target - Head(numbers)) < Abs(target - closest)
                THEN Head(numbers) ELSE closest)

findClosest(target, numbers) ==
  IF Len(numbers) = 0 THEN Undefined
  ELSE closerOf(target, Tail(numbers), Head(numbers))

\* ------------------------------------------------------------------ state
VARIABLES
  now,             \* Date.now()
  currentTime_,    \* AbstractAnimation's current time
  timeTolerance_,
  timeLayers_,     \* hash: key -> frame layer
  times_,          \* array of available timestamps
  layers,          \* the frame layer objects: id -> [loaded, opacity, bound, destroyed]
  masterHasMap,    \* masterLayer_.hasMap()
  masterStrategy,  \* TRUE while the master layer has its rendering strategy
  loaderOnce,      \* the once('load:times') handler on the loader is registered
  proxied,         \* load:* events of the loader are proxied (listenTo)
  selfOnce,        \* number of listenToOnce(this, 'load:times') retries registered
  selfChange,      \* listenTo(this, 'change:to change:from') is registered
  loadListen,      \* layers whose 'load' the animation listens to (once)
  mapSetListen,    \* layers with a 'map:set' preload listener on the master
  deferred,        \* layers with a deferred triggerLayerLoad pending
  events,          \* events the animation triggered in the last operation
  thrown,          \* the error the last operation threw, or "none"
  lastOp,          \* the last operation of the animation's interface (or Op("other"))
                   \* and the argument of goToTime
  emitted,         \* history: the load events the loader emitted, in order
  retriggered,     \* history: the load events the animation triggered, in order
  members,         \* AnimationSync: its member tile animations, in order
  syncTime,        \* AnimationSync: its current time
  params,          \* AerisAPI.serializeToURI: the object to serialize
  uri              \* AerisAPI.serializeToURI: what it returned, or "unset"

vars == <<now, currentTime_, timeTolerance_, timeLayers_, times_, layers,
          masterHasMap, masterStrategy, loaderOnce, proxied, selfOnce,
          selfChange, loadListen, mapSetListen, deferred, events, thrown, lastOp,
          emitted, retriggered, members, syncTime, params, uri>>

EmptyHash == <<>>

\* The animation's state as one value, so that handlers compose.
Cur ==
  [now |-> now, currentTime_ |-> currentTime_, timeTolerance_ |-> timeTolerance_,
   timeLayers_ |-> timeLayers_, times_ |-> times_, layers |-> layers,
   masterHasMap |-> masterHasMap, masterStrategy |-> masterStrategy,
   loaderOnce |-> loaderOnce, proxied |-> proxied, selfOnce |-> selfOnce,
   selfChange |-> selfChange, loadListen |-> loadListen,
   mapSetListen |-> mapSetListen, deferred |-> deferred,
   events |-> <<>>, thrown |-> "none"]

CommitAnimation(s, op) ==
  /\ now' = s.now
  /\ currentTime_' = s.currentTime_
  /\ timeTolerance_' = s.timeTolerance_
  /\ timeLayers_' = s.timeLayers_
  /\ times_' = s.times_
  /\ layers' = s.layers
  /\ masterHasMap' = s.masterHasMap
  /\ masterStrategy' = s.masterStrategy
  /\ loaderOnce' = s.loaderOnce
  /\ proxied' = s.proxied
  /\ selfOnce' = s.selfOnce
  /\ selfChange' = s.selfChange
  /\ loadListen' = s.loadListen
  /\ mapSetListen' = s.mapSetListen
  /\ deferred' = s.deferred
  /\ events' = s.events
  /\ thrown' = s.thrown
  /\ lastOp' = op

\* An operation of the animation in which the loader emits no load event.
Commit(s, op) ==
  /\ CommitAnimation(s, op)
  /\ UNCHANGED <<emitted, retriggered, members, syncTime, params, uri>>

\* --------------------------------------------------------- aeris.Events
NoArg == [type |-> "none", v |-> Undefined]
Op(name) == [op |-> name, arg |-> NoArg]

\* What a listener of an event can observe when the event is triggered.
Seen(s) ==
  [times_ |-> s.times_, currentTime_ |-> s.currentTime_, layers |-> s.layers,
   loadListen |-> s.loadListen, timeLayers_ |-> s.timeLayers_]

Record(s, name, args) ==
  [s EXCEPT !.events = Append(@, [name |-> name, args |-> args, seen |-> Seen(s)])]

Throw(s, e) == [s EXCEPT !.thrown = e]

\* stopListening() with no arguments: every handler whose context is the
\* animation is removed from every object the animation listens to (the
\* loader, the animation itself, the master layer, the frame layers).
stopListening(s) ==
  [s EXCEPT !.loaderOnce = FALSE, !.proxied = FALSE, !.selfOnce = 0,
            !.selfChange = FALSE, !.loadListen = {}, !.mapSetListen = {}]

\* ---------------------------------------------------------- frame layers
\* A frame as the loader creates it.
NewLayer(loaded) ==
  [loaded |-> loaded, opacity |-> 1, bound |-> FALSE, destroyed |-> FALSE]

HashLayers(h) == {h[k] : k \in DOMAIN h}
HashGet(h, k) == IF k \in DOMAIN h THEN h[k] ELSE Undefined

\* A frame after layer.destroy(): off the map, following nothing.
DestroyedLayer ==
  [loaded |-> FALSE, opacity |-> 0, bound |-> FALSE, destroyed |-> TRUE]

isLoaded(s, layer) == s.layers[layer].loaded

setOpacity(s, layer, o) == [s EXCEPT !.layers[layer].opacity = o]

\* layer.stopListening(masterLayer_): the layer no longer follows the master.
unbindFromMaster(s, layer) == [s EXCEPT !.layers[layer].bound = FALSE]

\* layer.bindAttributesTo(master, ['map', 'opacity', 'zIndex']): the layer takes
\* the master's attributes and follows their changes.
bindAttributesTo(s, layer) ==
  [s EXCEPT !.layers[layer].bound = TRUE, !.layers[layer].opacity = 1]

\* ------------------------------------------------------- TileAnimation
getTimes(s) == s.times_

getCurrentTime(s) == Num(s.currentTime_)

\* getOrderedTimesFromLayers_ without the sort.
getTimesFromLayersUnsorted(timeLayers) ==
  [i \in 1..Len(timeLayers.keys) |-> parseInt(timeLayers.keys[i])]

getOrderedTimesFromLayers_(timeLayers) ==
  LET times == [i \in 1..Len(timeLayers.keys) |-> parseInt(timeLayers.keys[i])]
  IN sortBy(times)

\* The hash is kept without its enumeration order, which nothing reads later.
setTimeLayers_(s, timeLayers) ==
  [s EXCEPT !.timeLayers_ = timeLayers.layer,
            !.times_ = getOrderedTimesFromLayers_(timeLayers)]

\* getClosestTime_ without the restriction to the target's tense.
getClosestTimeAnyTense(s, targetTime) == findClosest(targetTime, s.times_)

getClosestTime_(s, targetTime) ==
  LET isTargetInFuture == targetTime > s.now
      isTimeInSameTenseAsTarget(time) ==
        LET isTimeInFuture == time > s.now
        IN (isTimeInFuture /\ isTargetInFuture) \/ (~isTimeInFuture /\ ~isTargetInFuture)
      timesInSameTense == SelectSeq(s.times_, isTimeInSameTenseAsTarget)
  IN findClosest(targetTime, timesInSameTense)

getLayerForTime_(s, time) ==
  LET closest == getClosestTime_(s, time)
  IN IF closest = Undefined THEN Undefined
     ELSE HashGet(s.timeLayers_, ToKey(closest))

getCurrentLayer(s) == getLayerForTime_(s, s.currentTime_)

\* Math.abs(time - closest); NaN (here: undefined) when there is no closest time.
getTimeDeviation_(s, time) ==
  LET closest == getClosestTime_(s, time)
  IN IF closest = Undefined THEN Undefined ELSE Abs(time - closest)

getLayerIndex_(s) ==
  LET timeOfCurrentLayer == getClosestTime_(s, s.currentTime_)
  IN indexOf(s.times_, timeOfCurrentLayer)

isCurrentLayerFirst_(s) == getLayerIndex_(s) = 0

isCurrentLayerLast_(s) == getLayerIndex_(s) = Len(s.times_) - 1

getNextTime_(s) ==
  IF isCurrentLayerLast_(s) THEN At(s.times_, 0)
  ELSE At(s.times_, getLayerIndex_(s) + 1)

getPreviousTime_(s) ==
  LET lastTime == last(s.times_)
  IN IF isCurrentLayerFirst_(s) THEN lastTime
     ELSE At(s.times_, getLayerIndex_(s) - 1)

\* The layer's loading is started off the call stack (_.defer), at once when
\* the master is on a map, else at the master's next 'map:set'.
preloadTimeLayer_(s, layer) ==
  IF isLoaded(s, layer) THEN s
  ELSE IF s.masterHasMap
       THEN [s EXCEPT !.deferred = @ \cup {layer}]
       ELSE [s EXCEPT !.mapSetListen = @ \cup {layer}]

\* The deferred task of preloadTimeLayer_: layer.set({opacity: 0, map: ...}).
triggerLayerLoad(s, layer) ==
  IF s.layers[layer].destroyed THEN [s EXCEPT !.deferred = @ \ {layer}]
  ELSE [s EXCEPT !.layers[layer].opacity = 0, !.deferred = @ \ {layer}]

syncLayerToMaster_(s, layer) == bindAttributesTo(s, layer)

transitionNotLoadedLayer_(s, oldLayer, newLayer) ==
  [s EXCEPT !.loadListen = @ \cup {newLayer}]

\* "Hide all the layers": every frame stops following the master, and every
\* frame but the new one gets opacity 0.
RECURSIVE hideAllBut(_, _, _)
hideAllBut(s, todo, newLayer) ==
  IF todo = {} THEN s
  ELSE LET layer == CHOOSE l \in todo : TRUE
           s1 == unbindFromMaster(s, layer)
           s2 == IF layer # newLayer THEN setOpacity(s1, layer, 0) ELSE s1
       IN hideAllBut(s2, todo \ {layer}, newLayer)

\* transition_ for a loaded new layer (the part after the early return).
transitionLoaded_(s, newLayer) ==
  LET s1 == hideAllBut(s, HashLayers(s.timeLayers_), newLayer)
      deviation == getTimeDeviation_(s1, s1.currentTime_)
      isWithinTimeTolerance == deviation # Undefined /\ deviation < s1.timeTolerance_
  IN IF isWithinTimeTolerance THEN syncLayerToMaster_(s1, newLayer)
     ELSE setOpacity(s1, newLayer, 0)

\* transition_ without the wait for a layer that is not loaded.
transitionUnchecked_(s, oldLayer, newLayer) ==
  IF newLayer = Undefined THEN Throw(s, "TypeError")
  ELSE transitionLoaded_(preloadTimeLayer_(s, newLayer), newLayer)

transition_(s, oldLayer, newLayer) ==
  IF newLayer = Undefined THEN Throw(s, "TypeError")
  ELSE LET s1 == preloadTimeLayer_(s, newLayer)
       IN IF ~isLoaded(s1, newLayer)
          THEN transitionNotLoadedLayer_(s1, oldLayer, newLayer)
          ELSE transitionLoaded_(s1, newLayer)

\* goToNumber returning early, before the assignment, when no times are loaded.
goToNumberEarlyReturn(s, t) ==
  IF Len(getTimes(s)) = 0 THEN [s EXCEPT !.selfOnce = @ + 1]
  ELSE LET s1 == [s EXCEPT !.currentTime_ = t]
           s2 == transition_(s1, getCurrentLayer(s), getLayerForTime_(s, t))
       IN IF s2.thrown # "none" THEN s2
          ELSE Record(s2, "change:time", <<s2.currentTime_>>)

\* goToTime once the argument is known to be a number.
goToNumber(s, t) ==
  LET haveTimesBeenLoaded == Len(getTimes(s)) # 0
      currentLayer == getCurrentLayer(s)
      nextLayer == getLayerForTime_(s, t)
      s1 == [s EXCEPT !.currentTime_ = t]
      s2 == IF ~haveTimesBeenLoaded
            THEN [s1 EXCEPT !.selfOnce = @ + 1]
            ELSE transition_(s1, currentLayer, nextLayer)
  IN IF s2.thrown # "none" THEN s2
     ELSE Record(s2, "change:time", <<s2.currentTime_>>)

\* goToTime with the current time assigned before the argument is validated.
goToTimeLateCheck(s, time) ==
  LET t == IF isDate(time) THEN getTime(time) ELSE time
  IN IF ~isNumeric(t) THEN Throw([s EXCEPT !.currentTime_ = t.v], "InvalidArgumentError")
     ELSE goToNumber(s, t.v)

goToTime(s, time) ==
  LET t == IF isDate(time) THEN getTime(time) ELSE time
  IN IF ~isNumeric(t) THEN Throw(s, "InvalidArgumentError")
     ELSE goToNumber(s, t.v)

refreshCurrentLayer_(s) == goToTime(s, getCurrentTime(s))

\* The listenToOnce(this, 'load:times') handlers registered by goToTime: each
\* is removed when it is called, and calls goToTime(getCurrentTime()).
RECURSIVE runRetries(_, _)
runRetries(s, k) ==
  IF k = 0 \/ s.thrown # "none" THEN s
  ELSE runRetries(goToTime([s EXCEPT !.selfOnce = @ - 1], getCurrentTime(s)), k - 1)

\* this.trigger('load:times', times, timeLayers) and its listeners.
triggerLoadTimes(s, times, timeLayers) ==
  runRetries(Record(s, "load:times", <<times, timeLayers>>), s.selfOnce)

\* The handler with the event re-triggered before the timeline is set.
onLoadTimesEarlyTrigger(s, times, timeLayers) ==
  LET s0 == [s EXCEPT !.loaderOnce = FALSE]
      s1 == triggerLoadTimes(s0, times, timeLayers)
      s2 == IF s1.thrown # "none" THEN s1 ELSE setTimeLayers_(s1, timeLayers)
  IN IF s2.thrown # "none" THEN s2 ELSE refreshCurrentLayer_(s2)

\* The once('load:times') handler registered by loadAnimationLayers.
onLoadTimes(s, times, timeLayers) ==
  LET s0 == [s EXCEPT !.loaderOnce = FALSE]
      s1 == setTimeLayers_(s0, timeLayers)
      s2 == refreshCurrentLayer_(s1)
  IN IF s2.thrown # "none" THEN s2
     ELSE triggerLoadTimes(s2, times, timeLayers)

next(s) ==
  LET nextTime == getNextTime_(s)
  IN IF nextTime = Undefined \/ nextTime = 0 THEN s
     ELSE goToTime(s, Num(nextTime))

previous(s) ==
  LET prevTime == getPreviousTime_(s)
  IN IF prevTime = Undefined \/ prevTime = 0 THEN s
     ELSE goToTime(s, Num(prevTime))

\* layer.destroy() on every frame.
RECURSIVE destroyLayers(_, _)
destroyLayers(s, todo) ==
  IF todo = {} THEN s
  ELSE LET layer == CHOOSE l \in todo : TRUE
       IN destroyLayers([s EXCEPT !.layers[layer] = DestroyedLayer], todo \ {layer})

\* destroy() that forgets to empty times_ and to stop listening.
destroyFramesOnly(s) ==
  LET s1 == destroyLayers(s, HashLayers(s.timeLayers_))
  IN [s1 EXCEPT !.timeLayers_ = EmptyHash, !.masterStrategy = TRUE]

destroy(s) ==
  LET s1 == destroyLayers(s, HashLayers(s.timeLayers_))
      s2 == [s1 EXCEPT !.timeLayers_ = EmptyHash, !.times_ = <<>>]
      s3 == stopListening(s2)
  IN [s3 EXCEPT !.masterStrategy = TRUE]

\* The frame's 'load' event: the postponed transition runs if the frame is
\* still the current one.
onLayerLoad(s, layer) ==
  LET s1 == [s EXCEPT !.layers[layer].loaded = TRUE]
  IN IF layer \notin s1.loadListen THEN s1
     ELSE LET s2 == [s1 EXCEPT !.loadListen = @ \ {layer}]
          IN IF getCurrentLayer(s2) = layer
             THEN transition_(s2, Undefined, layer)
             ELSE s2

\* masterLayer_.setMap(map) / setMap(null): a 'map:set' runs the preload
\* listeners registered on the master, each deferring its triggerLayerLoad.
masterSetMap(s, hasMap) ==
  LET s1 == [s EXCEPT !.masterHasMap = hasMap]
  IN IF hasMap THEN [s1 EXCEPT !.deferred = @ \cup s1.mapSetListen] ELSE s1

\* ---------------------------------------------------------------- loader
\* What the loader can hand over with 'load:times': at most MaxFrames frames,
\* keyed by timestamp, enumerated oldest first or newest first.
Reverse(list) == [i \in 1..Len(list) |-> list[Len(list) + 1 - i]]
SetToSeq(S) == sortBy(CHOOSE q \in [1..Cardinality(S) -> S] : Range(q) = S)

LoaderHash(K, newestFirst) ==
  LET asc == SetToSeq(K)
      order == IF newestFirst THEN Reverse(asc) ELSE asc
  IN [keys |-> [i \in 1..Len(order) |-> ToKey(order[i])],
      layer |-> [k \in {ToKey(t) : t \in K} |-> parseInt(k)]]

FrameSets == {K \in SUBSET Times : Cardinality(K) <= MaxFrames}

\* The load events the loader emits, and the arguments they carry.
LoaderEvents == {"load:progress", "load:complete", "load:error", "load:reset"}
EmitArgs == {<<>>, <<1>>, <<1, 2>>}

\* ----------------------------------------------------- proxied load events
\* The events bindLoadEventsTo_ proxies, in the order it binds them.
ProxiedEvents == <<"load:progress", "load:complete", "load:error", "load:reset">>

\* A proxy that triggers the event without the loader's arguments.
proxyEventDropsArgs(s, eventName, args) == Record(s, eventName, <<>>)

\* The handler proxyEvent_ registers for eventName, called with the arguments
\* of the loader's event.
proxyEvent_(s, eventName, args) == Record(s, eventName, args)

\* The loader triggers a load event: the handlers bound by bindLoadEventsTo_
\* (and still registered) run.
loaderTrigger(s, eventName, args) ==
  IF s.proxied /\ eventName \in Range(ProxiedEvents)
  THEN proxyEvent_(s, eventName, args)
  ELSE s

\* The animation is alive from construction until destroy(), which restores
\* the master layer's strategy.
isAlive(s) == ~s.masterStrategy

\* The name and arguments of each event in a list of triggered events.
Signatures(evs) ==
  [i \in 1..Len(evs) |-> [name |-> evs[i].name, args |-> evs[i].args]]

\* -------------------------------------------------------- AnimationSync
\* The animations handed to the AnimationSync (radar and satellite).
NumMembers == 2

\* What the loader of a member can hand over with 'load:times'.
MemberFrameSets == {K \in SUBSET Times : Cardinality(K) <= MaxMemberFrames}

\* A tile animation as its constructor leaves it, on a master layer that is on
\* the map.
NewAnimation(clock) ==
  [now |-> clock, currentTime_ |-> clock, timeTolerance_ |-> TimeTolerance,
   timeLayers_ |-> EmptyHash, times_ |-> <<>>, layers |-> <<>>,
   masterHasMap |-> TRUE, masterStrategy |-> FALSE,
   loaderOnce |-> TRUE, proxied |-> TRUE, selfOnce |-> 0,
   selfChange |-> TRUE, loadListen |-> {}, mapSetListen |-> {},
   deferred |-> {}, events |-> <<>>, thrown |-> "none"]

\* A member animation about to run a handler at the given clock.
atClock(m, clock) == [m EXCEPT !.now = clock, !.events = <<>>, !.thrown = "none"]

\* The members' state after a handler; what was thrown is kept apart.
settled(m) == [m EXCEPT !.events = <<>>, !.thrown = "none"]

\* The coordinator sends every member to the same time, in order, from member
\* i on; an error raised by a member ends the call.
RECURSIVE syncGoToTime(_, _, _, _)
syncGoToTime(ms, i, time, clock) ==
  IF i > Len(ms) THEN [members |-> ms, thrown |-> "none"]
  ELSE LET r == goToTime(atClock(ms[i], clock), time)
           ms1 == [ms EXCEPT ![i] = r]
       IN IF r.thrown # "none" THEN [members |-> ms1, thrown |-> r.thrown]
          ELSE syncGoToTime(ms1, i + 1, time, clock)

\* The time the coordinator is on after goToTime(time).
syncTimeAfter(st, time, thr) ==
  LET t == IF isDate(time) THEN getTime(time) ELSE time
  IN IF thr = "InvalidArgumentError" THEN st ELSE t.v

\* next(timestep) and previous(timestep) of the coordinator: one step forward
\* or back on the shared timeline.
syncNext(ms, st, timestep, clock) == syncGoToTime(ms, 1, Num(st + timestep), clock)
syncPrevious(ms, st, timestep, clock) == syncGoToTime(ms, 1, Num(st - timestep), clock)

\* ------------------------------------------------ AerisAPI.serializeToURI
\* JavaScript values handed to the serializer.  Text is a sequence of
\* characters; the serializer's result is a string.
JsValue(type, n, s, keys, items) ==
  [type |-> type, n |-> n, s |-> s, keys |-> keys, items |-> items]

JsString(cs) == JsValue("string", 0, cs, <<>>, <<>>)
JsNumber(n) == JsValue("number", n, <<>>, <<>>, <<>>)
JsNull == JsValue("null", 0, <<>>, <<>>, <<>>)
JsUndefined == JsValue("undefined", 0, <<>>, <<>>, <<>>)
JsArray(items) == JsValue("array", 0, <<>>, <<>>, items)
\* An object lists its properties in insertion order.
JsObject(keys, items) == JsValue("object", 0, <<>>, keys, items)

isContainer(v) == v.type \in {"array", "object"}

Digits == <<"0", "1", "2", "3", "4", "5", "6", "7", "8", "9">>

RECURSIVE NumberToString(_)
NumberToString(n) ==
  IF n < 10 THEN <<Digits[n + 1]>>
  ELSE Append(NumberToString(n \div 10), Digits[(n % 10) + 1])

\* The text of a leaf value: empty for null and undefined.
ValueText(v) ==
  CASE v.type \in {"null", "undefined"} -> <<>>
    [] v.type = "number" -> NumberToString(v.n)
    [] OTHER -> v.s

\* encodeURIComponent, character by character: each character becomes one
\* piece of the result.
encodeChar(c) ==
  CASE c = " " -> "%20"
    [] c = "[" -> "%5B"
    [] c = "]" -> "%5D"
    [] c = "&" -> "%26"
    [] c = "=" -> "%3D"
    [] c = "?" -> "%3F"
    [] c = "%" -> "%25"
    [] OTHER -> c

encodeURIComponent(cs) == [i \in 1..Len(cs) |-> encodeChar(cs[i])]

\* A serializer that leaves the key as it is.
addRawKey(key, v) == key \o <<"=">> \o encodeURIComponent(ValueText(v))

\* One 'key=value' pair, both parts encoded.
add(key, v) ==
  encodeURIComponent(key) \o <<"=">> \o encodeURIComponent(ValueText(v))

\* The key already ends in "[]".
rbracket(prefix) ==
  /\ Len(prefix) >= 2
  /\ prefix[Len(prefix) - 1] = "[" /\ prefix[Len(prefix)] = "]"

\* typeof v === "object"
isObjectType(v) == v.type \in {"array", "object", "null"}

\* The pairs of a value under a key prefix, elements and properties in order.
RECURSIVE buildParams(_, _), buildEach(_, _, _)
buildEach(prefix, obj, i) ==
  IF i > Len(obj.items) THEN <<>>
  ELSE LET v == obj.items[i]
           index == IF isObjectType(v) THEN NumberToString(i - 1) ELSE <<>>
           here ==
             IF obj.type = "array"
             THEN IF rbracket(prefix) THEN <<add(prefix, v)>>
                  ELSE buildParams(prefix \o <<"[">> \o index \o <<"]">>, v)
             ELSE buildParams(prefix \o <<"[">> \o obj.keys[i] \o <<"]">>, v)
       IN here \o buildEach(prefix, obj, i + 1)

buildParams(prefix, obj) ==
  IF isContainer(obj) THEN buildEach(prefix, obj, 1)
  ELSE <<add(prefix, obj)>>

RECURSIVE paramEach(_, _)
paramEach(a, i) ==
  IF i > Len(a.items) THEN <<>>
  ELSE buildParams(a.keys[i], a.items[i]) \o paramEach(a, i + 1)

RECURSIVE join(_, _)
join(parts, sep) ==
  IF Len(parts) = 0 THEN <<>>
  ELSE IF Len(parts) = 1 THEN parts[1]
  ELSE parts[1] \o <<sep>> \o join(Tail(parts), sep)

\* replace(/%20/g, '+'): an encoded text holds "%20" only as the piece of a
\* space, since every other "%" starts the three-character piece of another
\* character.
replaceSpaces(pieces) ==
  [i \in 1..Len(pieces) |-> IF pieces[i] = "%20" THEN "+" ELSE pieces[i]]

RECURSIVE Concat(_)
Concat(pieces) ==
  IF Len(pieces) = 0 THEN "" ELSE pieces[1] \o Concat(Tail(pieces))

serializeToURI(a) == Concat(replaceSpaces(join(paramEach(a, 1), "&")))

\* The serializer's unit tests: each input with the text the test expects.
SerializerTests ==
  <<
    \* flat object (test lines 8-12)
    [input |->
        JsObject(<<<<"f", "o", "o">>, <<"b", "a", "z">>, <<"q", "u", "u",
        "x">>>>, <<JsString(<<"b", "a", "r">>), JsNumber(42), JsString(<<"A",
        "l", "l", " ", "y", "o", "u", "r", " ", "b", "a", "s", "e", " ", "a",
        "r", "e", " ", "b", "e", "l", "o", "n", "g", " ", "t", "o", " ", "u",
        "s">>)>>),
     expected |-> "foo=bar&baz=42&quux=All+your+base+are+belong+to+us"],
    \* nulls and undefineds (test lines 14-17)
    [input |->
        JsObject(<<<<"s", "t", "r", "i", "n", "g">>, <<"n", "u", "l", "l">>,
        <<"u", "n", "d", "e", "f", "i", "n", "e", "d">>>>, <<JsString(<<"f",
        "o", "o">>), JsNull, JsUndefined>>),
     expected |-> "string=foo&null=&undefined="],
    \* array as a value (test lines 19-22)
    [input |->
        JsObject(<<<<"s", "o", "m", "e", "N", "a", "m", "e">>, <<"r", "e",
        "g", "u", "l", "a", "r", "T", "h", "i", "n", "g">>>>,
        <<JsArray(<<JsNumber(1), JsNumber(2), JsNumber(3)>>), JsString(<<"b",
        "l", "a", "h">>)>>),
     expected |-> "someName%5B%5D=1&someName%5B%5D=2&someName%5B%5D=3&regularThing=blah"],
    \* array of strings, encoded (test lines 29-32)
    [input |->
        JsObject(<<<<"f", "o", "o">>>>, <<JsArray(<<JsString(<<"b", "a",
        "z">>), JsNumber(42), JsString(<<"A", "l", "l", " ", "y", "o", "u",
        "r", " ", "b", "a", "s", "e", " ", "a", "r", "e", " ", "b", "e", "l",
        "o", "n", "g", " ", "t", "o", " ", "u", "s">>)>>)>>),
     expected |-> "foo%5B%5D=baz&foo%5B%5D=42&foo%5B%5D=All+your+base+are+belong+to+us"],
    \* nested objects (test lines 34-37)
    [input |->
        JsObject(<<<<"f", "o", "o">>>>, <<JsObject(<<<<"b", "a", "r">>, <<"b",
        "e", "e", "p">>, <<"q", "u", "u", "x">>>>, <<JsString(<<"b", "a",
        "z">>), JsNumber(42), JsString(<<"A", "l", "l", " ", "y", "o", "u",
        "r", " ", "b", "a", "s", "e", " ", "a", "r", "e", " ", "b", "e", "l",
        "o", "n", "g", " ", "t", "o", " ", "u", "s">>)>>)>>),
     expected |-> "foo%5Bbar%5D=baz&foo%5Bbeep%5D=42&foo%5Bquux%5D=All+your+base+are+belong+to+us"],
    \* nested arrays (test lines 44-47), the expected text with its brackets encoded
    [input |->
        JsObject(<<<<"a">>>>, <<JsArray(<<JsNumber(0), JsArray(<<JsNumber(1),
        JsNumber(2)>>), JsArray(<<JsNumber(3), JsArray(<<JsNumber(4),
        JsNumber(5)>>), JsArray(<<JsNumber(6)>>)>>), JsObject(<<<<"b">>>>,
        <<JsArray(<<JsNumber(7), JsArray(<<JsNumber(8), JsNumber(9)>>),
        JsArray(<<JsObject(<<<<"c">>, <<"d">>>>, <<JsNumber(10),
        JsNumber(11)>>)>>), JsArray(<<JsArray(<<JsNumber(12)>>)>>),
        JsArray(<<JsArray(<<JsArray(<<JsNumber(13)>>)>>)>>),
        JsObject(<<<<"e">>>>, <<JsObject(<<<<"f">>>>, <<JsObject(<<<<"g">>>>,
        <<JsArray(<<JsNumber(14), JsArray(<<JsNumber(15)>>)>>)>>)>>)>>),
        JsNumber(16)>>)>>), JsNumber(17)>>)>>),
     expected |-> "a%5B%5D=0&a%5B1%5D%5B%5D=1&a%5B1%5D%5B%5D=2&a%5B2%5D%5B%5D=3&a%5B2%5D%5B1%5D%5B%5D=4&a%5B2%5D%5B1%5D%5B%5D=5&a%5B2%5D%5B2%5D%5B%5D=6&a%5B3%5D%5Bb%5D%5B%5D=7&a%5B3%5D%5Bb%5D%5B1%5D%5B%5D=8&a%5B3%5D%5Bb%5D%5B1%5D%5B%5D=9&a%5B3%5D%5Bb%5D%5B2%5D%5B0%5D%5Bc%5D=10&a%5B3%5D%5Bb%5D%5B2%5D%5B0%5D%5Bd%5D=11&a%5B3%5D%5Bb%5D%5B3%5D%5B0%5D%5B%5D=12&a%5B3%5D%5Bb%5D%5B4%5D%5B0%5D%5B0%5D%5B%5D=13&a%5B3%5D%5Bb%5D%5B5%5D%5Be%5D%5Bf%5D%5Bg%5D%5B%5D=14&a%5B3%5D%5Bb%5D%5B5%5D%5Be%5D%5Bf%5D%5Bg%5D%5B1%5D%5B%5D=15&a%5B3%5D%5Bb%5D%5B%5D=16&a%5B%5D=17"],
    \* no double encoding (test lines 49-51), the expected text with its brackets encoded
    [input |->
        JsObject(<<<<"a">>, <<"b", "[", "]">>, <<"c", "[", "d", "]">>,
        <<"e">>>>, <<JsArray(<<JsNumber(1), JsNumber(2), JsNumber(3)>>),
        JsArray(<<JsNumber(4), JsNumber(5), JsNumber(6)>>),
        JsArray(<<JsNumber(7), JsNumber(8), JsNumber(9)>>),
        JsObject(<<<<"f">>, <<"g">>, <<"h">>>>, <<JsArray(<<JsNumber(10)>>),
        JsArray(<<JsNumber(11), JsNumber(12)>>), JsNumber(13)>>)>>),
     expected |-> "a%5B%5D=1&a%5B%5D=2&a%5B%5D=3&b%5B%5D=4&b%5B%5D=5&b%5B%5D=6&c%5Bd%5D%5B%5D=7&c%5Bd%5D%5B%5D=8&c%5Bd%5D%5B%5D=9&e%5Bf%5D%5B%5D=10&e%5Bg%5D%5B%5D=11&e%5Bg%5D%5B%5D=12&e%5Bh%5D=13"]
  >>

\* The objects serialized: leaves, arrays and objects nested two deep under
\* one key, an array under a key that ends in "[]", and two keys.
SeqsUpTo(S, n) == UNION {[1..k -> S] : k \in 0..n}

ScalarValues == {JsString(<<"h", "i", " ", "u">>), JsNumber(42), JsUndefined}
LeafValues == ScalarValues \cup {JsNull}
PropNames == {<<"p">>, <<"q">>}

KeyLists(names) ==
  {ks \in SeqsUpTo(names, MaxElems) :
     \A i, j \in 1..Len(ks) : i # j => ks[i] # ks[j]}

ArraysOf(S) == {JsArray(items) : items \in SeqsUpTo(S, MaxElems)}

ObjectsOf(names, S) ==
  UNION {{JsObject(ks, items) : items \in [1..Len(ks) -> S]} :
           ks \in KeyLists(names)}

Nested1 == ArraysOf(ScalarValues) \cup ObjectsOf(PropNames, LeafValues)

Nested2 ==
  ArraysOf(ScalarValues \cup Nested1) \cup ObjectsOf(PropNames, LeafValues \cup Nested1)

ParamInputs ==
  {JsObject(<< <<"a">> >>, <<v>>) : v \in LeafValues \cup Nested2}
  \cup {JsObject(<< <<"b", "[", "]">> >>, <<v>>) : v \in ArraysOf(ScalarValues)}
  \cup {JsObject(ks, <<v, w>>) :
          ks \in {<< <<"a">>, <<"z">> >>, << <<"z">>, <<"a">> >>},
          v \in LeafValues \cup Nested1, w \in LeafValues}

NoParams == JsObject(<<>>, <<>>)

\* ------------------------------------------------------------------- Init
\* The animation, the loader's history and the AnimationSync as constructed.
Constructed ==
  /\ now = 1
  /\ currentTime_ = now
  /\ timeTolerance_ = TimeTolerance
  /\ timeLayers_ = EmptyHash
  /\ times_ = <<>>
  /\ layers = <<>>
  /\ masterHasMap \in BOOLEAN
  /\ masterStrategy = FALSE
  /\ loaderOnce = TRUE
  /\ proxied = TRUE
  /\ selfOnce = 0
  /\ selfChange = TRUE
  /\ loadListen = {}
  /\ mapSetListen = {}
  /\ deferred = {}
  /\ events = <<>>
  /\ thrown = "none"
  /\ lastOp = Op("new")
  /\ emitted = <<>>
  /\ retriggered = <<>>
  /\ members = [i \in 1..NumMembers |-> NewAnimation(now)]
  /\ syncTime = now

Init ==
  /\ Constructed
  /\ params = NoParams
  /\ uri = "unset"

\* ---------------------------------------------------------------- actions
Tick ==
  /\ now + 1 \in Clock
  /\ Commit([Cur EXCEPT !.now = @ + 1], Op("other"))

GoToTime ==
  \E x \in Inputs :
    /\ Len(times_) # 0 \/ selfOnce < MaxPending
    /\ Commit(goToTime(Cur, x), [op |-> "goToTime", arg |-> x])

NextFrame ==
  /\ Len(times_) # 0 \/ selfOnce < MaxPending
  /\ Commit(next(Cur), Op("next"))

PreviousFrame ==
  /\ Len(times_) # 0 \/ selfOnce < MaxPending
  /\ Commit(previous(Cur), Op("previous"))

LoaderLoadTimes ==
  \E K \in FrameSets, newestFirst \in BOOLEAN, loaded \in BOOLEAN :
    /\ loaderOnce
    /\ LET timeLayers == LoaderHash(K, newestFirst)
           created == [Cur EXCEPT !.layers = [l \in K |-> NewLayer(loaded)]]
       IN Commit(onLoadTimes(created, SetToSeq(K), timeLayers),
                 Op("load:times"))

LayerLoad ==
  \E layer \in DOMAIN layers :
    /\ ~layers[layer].loaded
    /\ ~layers[layer].destroyed
    /\ Commit(onLayerLoad(Cur, layer), Op("other"))

RunDeferred ==
  \E layer \in deferred :
    Commit(triggerLayerLoad(Cur, layer), Op("other"))

MasterSetMap ==
  Commit(masterSetMap(Cur, ~masterHasMap), Op("other"))

Destroy ==
  Commit(destroy(Cur), Op("destroy"))

LoaderEmit ==
  \E eventName \in LoaderEvents, args \in EmitArgs :
    /\ Len(emitted) < MaxEmits
    /\ LET r == loaderTrigger(Cur, eventName, args)
       IN /\ CommitAnimation(r, Op("load:event"))
          /\ emitted' = Append(emitted, [name |-> eventName, args |-> args,
                                         alive |-> isAlive(Cur)])
          /\ retriggered' = retriggered \o Signatures(r.events)
          /\ UNCHANGED <<members, syncTime, params, uri>>

Next ==
  \/ Tick
  \/ GoToTime
  \/ NextFrame
  \/ PreviousFrame
  \/ LoaderLoadTimes
  \/ LayerLoad
  \/ RunDeferred
  \/ MasterSetMap
  \/ Destroy

Spec == Init /\ [][Next]_vars

\* The loader reporting its progress to an animation whose frames are loaded
\* and which is destroyed meanwhile.
LoadNext ==
  \/ LoaderEmit
  \/ LoaderLoadTimes
  \/ Tick
  \/ Destroy

LoadSpec == Init /\ [][LoadNext]_vars

\* ------------------------------------------------- AnimationSync actions
\* A step of the coordinator or of one of its members.
SyncCommit(ms, st, thr, op) ==
  /\ members' = [i \in DOMAIN ms |-> settled(ms[i])]
  /\ syncTime' = st
  /\ thrown' = thr
  /\ lastOp' = op
  /\ UNCHANGED <<now, currentTime_, timeTolerance_, timeLayers_, times_, layers,
                 masterHasMap, masterStrategy, loaderOnce, proxied, selfOnce,
                 selfChange, loadListen, mapSetListen, deferred, events,
                 emitted, retriggered, params, uri>>

SyncGoToTime ==
  \E x \in Inputs :
    LET r == syncGoToTime(members, 1, x, now)
    IN /\ \A i \in DOMAIN members :
            Len(members[i].times_) # 0 \/ members[i].selfOnce < MaxPending
       /\ SyncCommit(r.members, syncTimeAfter(syncTime, x, r.thrown), r.thrown,
                     [op |-> "sync:goToTime", arg |-> x])

SyncNext ==
  LET r == syncNext(members, syncTime, 1, now)
  IN /\ syncTime + 1 \in Times
     /\ \A i \in DOMAIN members :
          Len(members[i].times_) # 0 \/ members[i].selfOnce < MaxPending
     /\ SyncCommit(r.members, syncTime + 1, r.thrown, Op("sync:next"))

SyncPrevious ==
  LET r == syncPrevious(members, syncTime, 1, now)
  IN /\ syncTime - 1 \in Times
     /\ \A i \in DOMAIN members :
          Len(members[i].times_) # 0 \/ members[i].selfOnce < MaxPending
     /\ SyncCommit(r.members, syncTime - 1, r.thrown, Op("sync:previous"))

\* The loader of member i hands over its frames.
MemberLoadTimes ==
  \E i \in DOMAIN members, K \in MemberFrameSets, loaded \in BOOLEAN :
    /\ members[i].loaderOnce
    /\ LET created == [atClock(members[i], now) EXCEPT
                         !.layers = [l \in K |-> NewLayer(loaded)]]
           r == onLoadTimes(created, SetToSeq(K), LoaderHash(K, FALSE))
       IN SyncCommit([members EXCEPT ![i] = r], syncTime, r.thrown,
                     Op("sync:other"))

SyncNextStep ==
  \/ SyncGoToTime
  \/ SyncNext
  \/ SyncPrevious
  \/ MemberLoadTimes
  \/ Tick

SyncSpec == Init /\ [][SyncNextStep]_vars

\* ------------------------------------------- AerisAPI.serializeToURI calls
SerializeInit ==
  /\ Constructed
  /\ params \in ParamInputs
  /\ uri = "unset"

Serialize ==
  /\ uri = "unset"
  /\ uri' = serializeToURI(params)
  /\ UNCHANGED <<now, currentTime_, timeTolerance_, timeLayers_, times_, layers,
                 masterHasMap, masterStrategy, loaderOnce, proxied, selfOnce,
                 selfChange, loadListen, mapSetListen, deferred, events,
                 thrown, lastOp, emitted, retriggered, members, syncTime,
                 params>>

SerializeSpec == SerializeInit /\ [][Serialize]_vars

\* ------------------------------------------------------------ properties
\* getCurrentLayer() and getTimes() of the animation in the current state.
CurrentLayer ==
  getCurrentLayer([now |-> now, times_ |-> times_, timeLayers_ |-> timeLayers_,
                   currentTime_ |-> currentTime_])

Timeline == getTimes([times_ |-> times_])

SameTense(a, b, clock) == (a > clock) = (b > clock)

\* The available times in the tense (past or future) of t.
TenseTimes(ts, t, clock) == {u \in Range(ts) : SameTense(u, t, clock)}

\* c is a member of S nearest to t.
ClosestIn(S, t, c) == c \in S /\ \A u \in S : Abs(t - c) <= Abs(t - u)

\* The frame layer stored for timestamp c.
FrameAt(h, c) == HashGet(h, ToKey(c))

IsAscending(list) == \A i \in 1..(Len(list) - 1) : list[i] < list[i + 1]

ValidInputs == NumberInputs \cup DateInputs

NoListeners ==
  /\ ~loaderOnce /\ ~proxied /\ selfOnce = 0 /\ ~selfChange
  /\ loadListen = {} /\ mapSetListen = {}

\* The successor and predecessor of a frame time in the looping timeline.
NextInCycle(list, t) ==
  LET i == CHOOSE j \in 1..Len(list) : list[j] = t
  IN IF i = Len(list) THEN list[1] ELSE list[i + 1]

PrevInCycle(list, t) ==
  LET i == CHOOSE j \in 1..Len(list) : list[j] = t
  IN IF i = 1 THEN list[Len(list)] ELSE list[i - 1]

\* goToTime was the last operation, with a Date or a number.
WentToTime == lastOp.op = "goToTime" /\ lastOp.arg \in ValidInputs

C2_TimelineOrdered ==
  /\ IsAscending(times_)
  /\ Range(times_) = {parseInt(k) : k \in DOMAIN timeLayers_}
  /\ loaderOnce => (times_ = <<>> /\ timeLayers_ = EmptyHash)
  /\ lastOp.op = "destroy" => (times_ = <<>> /\ timeLayers_ = EmptyHash)
  /\ lastOp.op = "load:times" => Range(times_) = DOMAIN layers

\* C2 witness: a full set of frames has been loaded.
C2_Witness ==
  lastOp.op = "load:times" /\ Len(times_) = MaxFrames /\ IsAscending(times_)

\* C3 (as claimed): after goToTime with times loaded and the closest frame
\* loaded, the frame is hidden (opacity 0, not bound) when the closest time is
\* more than timeTolerance away, and bound to the master when it is at most
\* timeTolerance away.
C3_ToleranceInclusive ==
  (/\ WentToTime /\ thrown = "none" /\ Len(times_) # 0
   /\ CurrentLayer # Undefined
   /\ layers[CurrentLayer].loaded)
  => LET layer == layers[CurrentLayer]
         deviation == getTimeDeviation_([now |-> now, times_ |-> times_], currentTime_)
     IN /\ deviation > timeTolerance_ => (layer.opacity = 0 /\ ~layer.bound)
        /\ deviation <= timeTolerance_ => layer.bound

\* The outcomes of the calls that move the animation, made in this state.
Moves == {goToTime(Cur, x) : x \in ValidInputs} \cup {next(Cur), previous(Cur)}

C5_NextAdvances ==
  [][(lastOp'.op = "next" /\ Len(times_) # 0 /\ currentTime_ \in Range(times_))
     => currentTime_' = NextInCycle(times_, currentTime_)]_vars

\* C6 (as claimed): previous() on frame times[i] sets the current time to
\* times[i-1], or to the last time from the first frame.
C6_PreviousRetreats ==
  [][(lastOp'.op = "previous" /\ Len(times_) # 0 /\ currentTime_ \in Range(times_))
     => currentTime_' = PrevInCycle(times_, currentTime_)]_vars

\* The transition to the frame at time c has been carried out: the frame is
\* the current layer, and either it is awaited (not loaded) or every other
\* frame is hidden and this one is bound or hidden.
TransitionAppliedNext(c) ==
  LET l == FrameAt(timeLayers_', c)
  IN /\ CurrentLayer' = l
     /\ IF ~layers'[l].loaded THEN l \in loadListen'
        ELSE /\ \A o \in DOMAIN layers' \ {l} :
                  layers'[o].opacity = 0 /\ ~layers'[o].bound
             /\ layers'[l].bound \/ layers'[l].opacity = 0
             /\ currentTime_' = c => layers'[l].bound

\* goToTime(t) before any times are loaded: no transition, the time is kept,
\* and a retry waits for 'load:times'.
PreLoadGoToTime ==
  (lastOp'.op = "goToTime" /\ lastOp'.arg \in ValidInputs /\ Len(times_) = 0) =>
    /\ currentTime_' = lastOp'.arg.v
    /\ layers' = layers /\ loadListen' = loadListen /\ deferred' = deferred
    /\ mapSetListen' = mapSetListen
    /\ selfOnce' = selfOnce + 1

C8_InvalidTimeRejected ==
  [][(lastOp'.op = "goToTime" /\ lastOp'.arg \in InvalidInputs) =>
       /\ thrown' = "InvalidArgumentError"
       /\ events' = <<>>
       /\ UNCHANGED <<now, currentTime_, timeTolerance_, timeLayers_, times_,
                      layers, masterHasMap, masterStrategy, loaderOnce, proxied,
                      selfOnce, selfChange, loadListen, mapSetListen, deferred>>]_vars

\* C8 witness: goToTime has rejected its argument while a frame was displayed.
C8_Witness ==
  /\ lastOp.op = "goToTime" /\ thrown = "InvalidArgumentError" /\ events = <<>>
  /\ Len(times_) # 0
  /\ \E l \in DOMAIN layers : layers[l].bound

\* C9: destroy() destroys every frame held, leaves no times and no frames,
\* stops all listening, and restores the master's strategy, which is absent
\* from construction until then.
C9_DestroyClears ==
  /\ ~masterStrategy
  /\ [][/\ lastOp'.op = "destroy" =>
             /\ \A l \in HashLayers(timeLayers_) : layers'[l].destroyed
             /\ Timeline' = <<>>
             /\ timeLayers_' = EmptyHash
             /\ NoListeners'
             /\ masterStrategy'
        /\ masterStrategy' # masterStrategy => lastOp'.op = "destroy"]_vars

\* C9 witness: destroy() has run on an animation that held frames and awaited
\* a frame's load.
C9_Witness ==
  /\ lastOp.op = "destroy" /\ masterStrategy /\ NoListeners
  /\ Cardinality({l \in DOMAIN layers : layers[l].destroyed}) = MaxFrames

\* C10: when the animation triggers 'load:times' the timeline is already set
\* to the loaded times in ascending order and the current layer has been
\* refreshed; the event carries the loader's arguments; before the loader's
\* load:times the timeline is empty.
C10_TimesSetBeforeEvent ==
  /\ loaderOnce => Timeline = <<>>
  /\ \A i \in 1..Len(events) :
       events[i].name = "load:times" =>
         LET e == events[i]
             times == e.args[1]
             timeLayers == e.args[2]
         IN /\ IsAscending(e.seen.times_)
            /\ Range(e.seen.times_) = {parseInt(k) : k \in Range(timeLayers.keys)}
            /\ e.seen.times_ = times
            /\ e.seen.timeLayers_ = timeLayers.layer
            /\ Range(times) = DOMAIN layers
            /\ i > 1 /\ events[i - 1].name = "change:time"
            /\ events[i - 1].seen.currentTime_ = e.seen.currentTime_
            /\ events[i - 1].seen.layers = e.seen.layers
            /\ events[i - 1].seen.loadListen = e.seen.loadListen

\* C10 witness: the animation has triggered 'load:times' for a full set of
\* frames.
C10_Witness ==
  /\ lastOp.op = "load:times" /\ Len(times_) = MaxFrames
  /\ \E i \in 1..Len(events) : events[i].name = "load:times"

\* The load events the loader emitted while the animation was alive.
EmittedAlive ==
  LET Alive(e) == e.alive
      evs == SelectSeq(emitted, Alive)
  IN Signatures(evs)

\* C11: the load events the animation has triggered are exactly the load
\* events the loader emitted while the animation was alive, with the same
\* names and arguments and in the same order; each is triggered during the
\* loader's own emission, and nothing is triggered for an emission made after
\* destroy().
C11_LoadEventsProxied ==
  /\ retriggered = EmittedAlive
  /\ (lastOp.op = "load:event" /\ emitted # <<>>) =>
       LET e == emitted[Len(emitted)]
       IN Signatures(events) =
            IF e.alive THEN <<[name |-> e.name, args |-> e.args]>> ELSE <<>>

\* C11 witness: the loader emitted load:reset and then load:progress with an
\* argument, and the animation has triggered both, in that order.
C11_Witness ==
  /\ lastOp.op = "load:event" /\ Len(retriggered) = 2
  /\ retriggered[1] = [name |-> "load:reset", args |-> <<>>]
  /\ retriggered[2] = [name |-> "load:progress", args |-> <<1>>]
  /\ Signatures(events) = <<retriggered[2]>>

\* The last operation was goToTime, next or previous on the AnimationSync.
SyncMoved == lastOp.op \in {"sync:goToTime", "sync:next", "sync:previous"}

\* All member animations are on the same current time.
MembersAligned ==
  \A i, j \in DOMAIN members : members[i].currentTime_ = members[j].currentTime_

\* A call on the AnimationSync that no member ended with an error leaves the
\* members on the same current time, the coordinator's.
SyncAlignedWhenCompleted ==
  (SyncMoved /\ thrown = "none") =>
    /\ MembersAligned
    /\ \A i \in DOMAIN members : members[i].currentTime_ = syncTime

SerializerPassesTests ==
  \A i \in 1..Len(SerializerTests) :
    serializeToURI(SerializerTests[i].input) = SerializerTests[i].expected

\* The paths to the leaves of a value, in order; a path lists the positions
\* taken from the value down to the leaf.
RECURSIVE LeafPaths(_), LeafPathsFrom(_, _)
LeafPathsFrom(v, i) ==
  IF i > Len(v.items) THEN <<>>
  ELSE LET below == LeafPaths(v.items[i])
       IN [k \in 1..Len(below) |-> <<i>> \o below[k]] \o LeafPathsFrom(v, i + 1)

LeafPaths(v) == IF isContainer(v) THEN LeafPathsFrom(v, 1) ELSE << <<>> >>

RECURSIVE ValueAt(_, _)
ValueAt(v, path) ==
  IF Len(path) = 0 THEN v ELSE ValueAt(v.items[Head(path)], Tail(path))

\* The key of the leaf at a path below a value that has the given key: "[p]"
\* for property p of an object, "[]" for a scalar element of an array and "[i]"
\* for element i of an array that is itself an array or an object; with
\* asIs, the elements of an array whose key already ends in "[]" keep that key.
RECURSIVE KeyAt(_, _, _, _)
KeyAt(key, v, path, asIs) ==
  IF Len(path) = 0 THEN key
  ELSE LET i == Head(path)
           child == v.items[i]
           step ==
             IF v.type = "object" THEN <<"[">> \o v.keys[i] \o <<"]">>
             ELSE IF asIs /\ rbracket(key) THEN <<>>
             ELSE IF isContainer(child)
                  THEN <<"[">> \o NumberToString(i - 1) \o <<"]">>
                  ELSE <<"[", "]">>
       IN KeyAt(key \o step, child, Tail(path), asIs)

\* One key and text per leaf value, in the order of the input.
RECURSIVE LeafPairs(_, _, _)
LeafPairs(a, i, asIs) ==
  IF i > Len(a.items) THEN <<>>
  ELSE LET paths == LeafPaths(a.items[i])
       IN [k \in 1..Len(paths) |->
             [key |-> KeyAt(a.keys[i], a.items[i], paths[k], asIs),
              value |-> ValueText(ValueAt(a.items[i], paths[k]))]]
          \o LeafPairs(a, i + 1, asIs)

\* A text as it is, with its spaces as '+'.
PlusText(cs) == Concat([i \in 1..Len(cs) |-> IF cs[i] = " " THEN "+" ELSE cs[i]])

\* A text URI-component-encoded, with its spaces as '+'.
EncodedText(cs) == Concat(replaceSpaces(encodeURIComponent(cs)))

RECURSIVE JoinText(_, _)
JoinText(texts, sep) ==
  IF Len(texts) = 0 THEN ""
  ELSE IF Len(texts) = 1 THEN texts[1]
  ELSE texts[1] \o sep \o JoinText(Tail(texts), sep)

\* C13 (as claimed): serializeToURI emits one 'key=value' pair per leaf, in
\* input order, joined by '&', with keys k, k[], k[p] and k[i]... as written
\* and the spaces of values as '+'.
C13_PairPerLeafKeysAsWritten ==
  uri # "unset" =>
    LET pairs == LeafPairs(params, 1, FALSE)
    IN uri = JoinText([k \in 1..Len(pairs) |->
                         Concat(pairs[k].key) \o "=" \o PlusText(pairs[k].value)],
                      "&")

\* C13 (amended): serializeToURI emits one 'key=value' pair per leaf, in input
\* order, joined by '&'; key and value are URI-component-encoded with spaces
\* as '+'; before encoding the key is k for a leaf at key k, k[] for a scalar
\* element of an array at key k (k itself when k already ends in "[]"), k[p]
\* for property p of an object at key k, and starts with k[i] for an array or
\* object that is element i of an array at key k; null and undefined leaves
\* have an empty value.
C13_PairPerLeafEncoded ==
  uri # "unset" =>
    LET pairs == LeafPairs(params, 1, TRUE)
    IN uri = JoinText([k \in 1..Len(pairs) |->
                         EncodedText(pairs[k].key) \o "=" \o EncodedText(pairs[k].value)],
                      "&")

\* C13 witness: an array holding a number and an object with a null and a
\* text with a space has been serialized.
C13_Witness ==
  /\ params = JsObject(<< <<"a">> >>,
                       <<JsArray(<<JsNumber(42),
                                   JsObject(<< <<"p">>, <<"q">> >>,
                                            <<JsNull, JsString(<<"h", "i", " ", "u">>)>>)>>)>>)
  /\ uri = "a%5B%5D=42&a%5B1%5D%5Bp%5D=&a%5B1%5D%5Bq%5D=hi+u"

====
